---- MODULE Spec2Model ----
(***************************************************************************)
(* The data-refresh logic of pages/index.js (component Home): the table    *)
(* snapshot fetched from Supabase (fetchCryptos), the realtime             *)
(* subscription that re-fetches on every change, the CoinGecko feed polled *)
(* through useSWR, and the choice of what is rendered.                     *)
(***************************************************************************)
EXTENDS Integers, Sequences, FiniteSets, TLC

\* Bounds of the model.
MaxRows == 2        \* longest row sequence either service returns
MaxInflight == 2    \* table requests simultaneously awaiting a response

-----------------------------------------------------------------------------
(* JavaScript values, tagged by type.                                      *)

Undefined == [t |-> "undefined"]
Null == [t |-> "null"]
Arr(s) == [t |-> "array", items |-> s]
Str(s) == [t |-> "string", text |-> s]
Num(n) == [t |-> "number", n |-> n]
\* An Error / PostgrestError object: only its message is read (line 50).
ErrObj(m) == [t |-> "object", message |-> Str(m)]
\* The JSON body CoinGecko sends with a non-2xx status (rate limit).
FeedErrorBody == [t |-> "object", status |-> "error_code"]

\* ToBoolean, as applied by `if (x)`, `x || y` and `!x`.
Truthy(v) ==
    CASE v.t = "undefined" -> FALSE
      [] v.t = "null" -> FALSE
      [] v.t = "string" -> v.text # ""
      [] v.t = "number" -> v.n # 0
      [] OTHER -> TRUE

\* a || b
JsOr(a, b) == IF Truthy(a) THEN a ELSE b

\* v.length: a number for an array, undefined for an object without it.
Length(v) == IF v.t = "array" THEN Num(Len(v.items)) ELSE Undefined

-----------------------------------------------------------------------------
(* What the two services can answer.                                       *)

Ids == 1..MaxRows

\* A crypto_prices row (fields price, change_24h) and a CoinGecko record
\* (fields current_price, price_change_percentage_24h); market_cap = id here.
TableRow(i) == [id |-> i, market_cap |-> i, price |-> i]
FeedRecord(i) == [id |-> i, market_cap |-> i, current_price |-> i]

\* Sequences of distinct ids by descending market cap, as both queries order.
DescIds ==
    { s \in UNION { [1..n -> Ids] : n \in 0..MaxRows } :
        \A i, j \in DOMAIN s : i < j => s[i] > s[j] }

TableSnapshots == { [i \in DOMAIN s |-> TableRow(s[i])] : s \in DescIds }
FeedLists == { [i \in DOMAIN s |-> FeedRecord(s[i])] : s \in DescIds }

\* The message of a query error the service reports, and of a transport
\* failure the client throws.
QueryMessage == "permission denied"
TransportMessage == "fetch failed"
Messages == {QueryMessage, TransportMessage}

\* What `await supabase.from(..).select(..).order(..).limit(20)` yields: the
\* promise resolves to {data, error}, or rejects.
TableOutcomes ==
    { [kind |-> "resolve", data |-> Arr(s), error |-> Null, exc |-> Null] :
        s \in TableSnapshots }
    \cup { [kind |-> "resolve", data |-> Null, error |-> Null, exc |-> Null] }
    \cup { [kind |-> "resolve", data |-> Null, error |-> ErrObj(QueryMessage),
             exc |-> Null] }
    \cup { [kind |-> "reject", data |-> Null, error |-> Null,
             exc |-> ErrObj(TransportMessage)] }

\* What fetch(url) meets: no connection, or an HTTP response whose body is
\* JSON (the list, or an error object) or not JSON at all (a gateway page).
FeedResponses ==
    { [net |-> "fail", ok |-> FALSE, json |-> FALSE, body |-> Undefined] }
    \cup { [net |-> "up", ok |-> TRUE, json |-> TRUE, body |-> Arr(s)] :
        s \in FeedLists }
    \cup { [net |-> "up", ok |-> FALSE, json |-> TRUE, body |-> FeedErrorBody] }
    \cup { [net |-> "up", ok |-> FALSE, json |-> FALSE, body |-> Undefined] }

\* A poll failed: transport failure or an error response.
FeedFailed(resp) == resp.net = "fail" \/ ~resp.ok

\* The change events of the subscription (event: '*'); the callback reads no
\* field of the payload, the event type stands for all of them.
Payloads == [eventType : {"INSERT", "UPDATE", "DELETE"}]

-----------------------------------------------------------------------------
VARIABLES
    phase,      \* "rendered" (before the effect ran), "mounted", "unmounted"
    cryptos,    \* useState([])
    loading,    \* useState(true)
    error,      \* useState(null)
    liveData,   \* data returned by useSWR
    subscribed, \* the crypto_changes channel delivers events
    inflight,   \* table requests awaiting their response, oldest first
    escaped,    \* an exception left fetchCryptos (its promise rejected)
    console,    \* the last line written to the console
    hist        \* history: the table fetches completed so far

vars == <<phase, cryptos, loading, error, liveData, subscribed, inflight,
          escaped, console, hist>>

Init ==
    /\ phase = "rendered"
    /\ cryptos = Arr(<<>>)
    /\ loading = TRUE
    /\ error = Null
    /\ liveData = Undefined
    /\ subscribed = FALSE
    /\ inflight = <<>>
    /\ escaped = FALSE
    /\ console = <<>>
    /\ hist = [last |-> "none", failure |-> Null, okData |-> Null,
               okOrigin |-> "none", okOvertook |-> FALSE]

-----------------------------------------------------------------------------
(* fetcher, lines 6-9.                                                     *)

fetcher(resp) ==
    IF resp.net = "fail"
    THEN [settled |-> "rejected", value |-> Undefined]   \* fetch(url) throws
    ELSE IF ~resp.json
    THEN [settled |-> "rejected", value |-> Undefined]   \* res.json() throws
    ELSE [settled |-> "fulfilled", value |-> resp.body]

(* fetchCryptos, lines 37-54.                                              *)

\* The part before the await: setLoading(true) and the request goes out.
IssueFetch(origin) ==
    /\ loading' = TRUE
    /\ inflight' = Append(inflight, [origin |-> origin, overtaken |-> FALSE])

\* TryBlock with a fault: setCryptos(data || []) placed before `if (error)`.
TryBlockSetsFirst(out) ==
    IF out.kind = "reject"
    THEN [threw |-> TRUE, exc |-> out.exc, sets |-> FALSE, value |-> Null]
    ELSE [threw |-> Truthy(out.error), exc |-> out.error, sets |-> TRUE,
          value |-> JsOr(out.data, Arr(<<>>))]

\* TryBlock with a fault: setCryptos called only for a non-empty result.
TryBlockSkipsEmpty(out) ==
    IF out.kind = "reject"
    THEN [threw |-> TRUE, exc |-> out.exc, sets |-> FALSE, value |-> Null]
    ELSE IF Truthy(out.error)
    THEN [threw |-> TRUE, exc |-> out.error, sets |-> FALSE, value |-> Null]
    ELSE [threw |-> FALSE, exc |-> Null,
          sets |-> (Truthy(out.data) /\ Truthy(Length(out.data))),
          value |-> out.data]

\* Lines 40-47 once the await is over: what the try block throws, and the
\* value it hands to setCryptos.
TryBlock(out) ==
    IF out.kind = "reject"
    THEN [threw |-> TRUE, exc |-> out.exc, sets |-> FALSE, value |-> Null]
    ELSE IF Truthy(out.error)
    THEN [threw |-> TRUE, exc |-> out.error, sets |-> FALSE, value |-> Null]
    ELSE [threw |-> FALSE, exc |-> Null, sets |-> TRUE,
          value |-> JsOr(out.data, Arr(<<>>))]

\* Lines 48-50: the catch clause takes whatever the try block threw, logs it
\* and calls setError(error.message); nothing is thrown again.
CatchClause(r, err, log) ==
    IF r.threw
    THEN [error |-> r.exc.message, rethrown |-> FALSE,
          console |-> <<"Error fetching cryptos:", r.exc>>]
    ELSE [error |-> err, rethrown |-> FALSE, console |-> log]

\* FinallyLoading with a fault: setLoading(false) at the end of the try block
\* instead of in a finally clause.
FinallyLoadingInTry(r, l) == IF r.threw THEN l ELSE FALSE

\* Lines 51-53: the finally clause.
FinallyLoading(r, l) == FALSE

RemoveAt(s, i) == [k \in 1..(Len(s) - 1) |-> IF k < i THEN s[k] ELSE s[k + 1]]

\* The response of the i-th request in flight arrives and the rest of
\* fetchCryptos runs.
FetchSettle(i, out) ==
    /\ i \in 1..Len(inflight)
    /\ LET r == TryBlock(out)
           c == CatchClause(r, error, console)
       IN
        /\ cryptos' = IF r.sets THEN r.value ELSE cryptos
        /\ error' = c.error
        /\ console' = c.console
        /\ loading' = FinallyLoading(r, loading)
        /\ escaped' = (escaped \/ c.rethrown)
        /\ hist' = IF r.threw
                   THEN [hist EXCEPT !.last = "failed", !.failure = r.exc]
                   ELSE [last |-> "ok", failure |-> hist.failure,
                         okData |-> out.data,
                         okOrigin |-> inflight[i].origin,
                         okOvertook |-> inflight[i].overtaken]
    /\ inflight' = RemoveAt([k \in 1..Len(inflight) |->
                        IF k < i THEN [inflight[k] EXCEPT !.overtaken = TRUE]
                        ELSE inflight[k]], i)
    /\ UNCHANGED <<phase, liveData, subscribed>>

(* The effect, lines 17-35, and the SWR hook, lines 57-61.                 *)

Mount ==
    /\ phase = "rendered"
    /\ phase' = "mounted"
    /\ IssueFetch("mount")
    /\ subscribed' = TRUE
    /\ UNCHANGED <<cryptos, error, liveData, escaped, console, hist>>

\* onChange with a fault: only UPDATE events re-fetch.
onChangeUpdatesOnly(payload) ==
    /\ subscribed
    /\ Len(inflight) < MaxInflight
    /\ console' = <<"Change received!", payload>>
    /\ IF payload.eventType = "UPDATE"
       THEN IssueFetch("change")
       ELSE UNCHANGED <<loading, inflight>>
    /\ UNCHANGED <<phase, cryptos, error, liveData, subscribed, escaped, hist>>

\* The subscription callback, lines 25-28.
onChange(payload) ==
    /\ subscribed
    /\ Len(inflight) < MaxInflight
    /\ console' = <<"Change received!", payload>>
    /\ IssueFetch("change")
    /\ UNCHANGED <<phase, cryptos, error, liveData, subscribed, escaped, hist>>

\* The cleanup, lines 32-34. The SWR hook goes with the component.
Unmount ==
    /\ phase = "mounted"
    /\ phase' = "unmounted"
    /\ subscribed' = FALSE
    /\ UNCHANGED <<cryptos, loading, error, liveData, inflight, escaped,
                   console, hist>>

\* A poll of the feed settles (the first one starts with the mount, the next
\* ones every refreshInterval: 30000): data becomes what fetcher resolved to,
\* and is kept when fetcher rejected.
PollSettle(resp) ==
    /\ phase = "mounted"
    /\ LET p == fetcher(resp) IN
        liveData' = IF p.settled = "fulfilled" THEN p.value ELSE liveData
    /\ UNCHANGED <<phase, cryptos, loading, error, subscribed, inflight,
                   escaped, console, hist>>

Next ==
    \/ Mount
    \/ \E payload \in Payloads : onChange(payload)
    \/ \E i \in 1..MaxInflight, out \in TableOutcomes : FetchSettle(i, out)
    \/ \E resp \in FeedResponses : PollSettle(resp)
    \/ Unmount

Spec == Init /\ [][Next]_vars

\* Every table request issued eventually receives its response: the oldest
\* request in flight is always answered in the end.
FairSpec == Spec /\ WF_vars(\E out \in TableOutcomes : FetchSettle(1, out))

(* Rendering, lines 79-168.                                                *)

\* displayData with a fault: the live list is used only when it has elements.
displayDataNonEmpty ==
    IF Truthy(liveData) /\ Truthy(Length(liveData)) THEN liveData ELSE cryptos

\* line 92
displayData == JsOr(liveData, cryptos)

\* What Home returns: the error panel (79-90), the spinner (108-111) or the
\* table with one row per element (126-163); .map on a value that is not an
\* array throws.
Render ==
    IF Truthy(error)
    THEN [view |-> "error", rows |-> 0]
    ELSE IF loading /\ ~Truthy(Length(displayData))
    THEN [view |-> "loading", rows |-> 0]
    ELSE IF displayData.t = "array"
    THEN [view |-> "table", rows |-> Len(displayData.items)]
    ELSE [view |-> "TypeError", rows |-> 0]

-----------------------------------------------------------------------------
(* The claims.                                                             *)

LivePresent == liveData # Undefined

\* The step is the completion of a table fetch: only FetchSettle takes a
\* request out of those in flight, and it records its outcome in hist.
FetchCompletes == Len(inflight') < Len(inflight)
FetchFails == FetchCompletes /\ hist'.last = "failed"
FetchSucceeds == FetchCompletes /\ hist'.last = "ok"
SnapshotOf(data) == IF data = Null THEN Arr(<<>>) ELSE data

\* C1: the resolved display list is liveRecords whenever liveRecords is
\* present, an empty successful poll included, and tableRecords only when
\* liveRecords is absent; it is one of the two, never a mix.
C1_DisplayPrecedence ==
    /\ LivePresent => displayData = liveData
    /\ ~LivePresent => displayData = cryptos

\* C1 witness: an empty successful poll supersedes a non-empty table snapshot.
C1_Witness ==
    /\ liveData = Arr(<<>>)
    /\ Len(cryptos.items) > 0
    /\ displayData = liveData

\* C2 as claimed: once a table fetch has completed successfully, lastError is
\* absent (the last completed table fetch succeeded => error is null).
C2_ErrorClearedOnSuccess == hist.last = "ok" => error = Null

\* C3: a table fetch that completes with a failure leaves tableRecords and
\* liveRecords as they were, makes lastError the failure's message, and
\* throws nothing out of fetchCryptos.
C3_FailureKeepsData ==
    [][FetchFails =>
           /\ cryptos' = cryptos
           /\ liveData' = liveData
           /\ error' = hist'.failure.message
           /\ error' \in {Str(m) : m \in Messages}
           /\ ~escaped']_vars

\* C3 witness: a fetch has failed while table rows and live data were held.
C3_Witness ==
    /\ hist.last = "failed"
    /\ error \in {Str(m) : m \in Messages}
    /\ Len(cryptos.items) > 0
    /\ LivePresent

\* C4 as claimed: while at least one table request is in flight, isLoading
\* is true.
C4_LoadingWhileInflight == Len(inflight) > 0 => loading

C6_PollFailureKeepsLive ==
    [][\A resp \in FeedResponses :
           (PollSettle(resp) /\ FeedFailed(resp)) =>
               (liveData' = liveData /\ error' = error)]_vars

\* C7: tableRecords is the result of the successful table fetch that
\* completed last, whatever the order in which the fetches were issued.
C7_LastCompletedWins ==
    hist.okOrigin # "none" => cryptos = SnapshotOf(hist.okData)

\* C7 witness: the fetch that completed last had been overtaken by one
\* issued after it, and its rows are the ones held.
C7_Witness ==
    /\ hist.last = "ok"
    /\ hist.okOvertook
    /\ Len(cryptos.items) > 0
    /\ inflight = <<>>

\* C8: every change notification delivered while subscribed issues one more
\* table fetch, whatever its payload, and when a fetch issued by a
\* notification succeeds tableRecords becomes the snapshot it returned.
C8_NotificationRefetches ==
    [][/\ \A payload \in Payloads :
              onChange(payload) =>
                  /\ Len(inflight') = Len(inflight) + 1
                  /\ inflight'[Len(inflight')].origin = "change"
                  /\ loading'
       /\ (FetchSucceeds /\ hist'.okOrigin = "change") =>
              cryptos' = SnapshotOf(hist'.okData)]_vars

\* C8 witness: a fetch issued by a notification succeeded and replaced the
\* rows.
C8_Witness ==
    /\ hist.last = "ok"
    /\ hist.okOrigin = "change"
    /\ Len(cryptos.items) > 0
    /\ phase = "mounted"

\* C9 as claimed: the error panel whenever lastError is set; otherwise the
\* loading indicator exactly when isLoading and the resolved list is empty;
\* otherwise the table with one row per record of the resolved list.
C9_RenderDecision ==
    IF error # Null
    THEN Render.view = "error"
    ELSE IF loading /\ displayData = Arr(<<>>)
    THEN Render.view = "loading"
    ELSE /\ Render.view = "table"
         /\ displayData.t = "array"
         /\ Render.rows = Len(displayData.items)

\* No table fetch is in flight and isLoading is false.
Idle == inflight = <<>> /\ ~loading

\* C10 as claimed: every completion of a table fetch sets isLoading to
\* false, and, every request being answered, from any mounted state a state
\* with no fetch in flight and isLoading false is eventually reached.
C10_EventuallyIdle ==
    /\ [][FetchCompletes => ~loading']_vars
    /\ [](phase = "mounted" => <>Idle)

\* C10 amended: the same, provided change notifications eventually stop
\* arriving.
C10_IdleOnceNotificationsStop ==
    /\ [][FetchCompletes => ~loading']_vars
    /\ (<>[][~(\E payload \in Payloads : onChange(payload))]_vars)
           => [](phase = "mounted" => <>Idle)

\* C10 witness: a success and then a failure have completed while mounted,
\* nothing is in flight and isLoading is false.
C10_Witness ==
    /\ phase = "mounted"
    /\ hist.last = "failed"
    /\ hist.okOrigin # "none"
    /\ Idle

====
